---- MODULE Spec2Model ----
(***************************************************************************)
(* The quiz-solving service of src/main.py (pdfplumber/pandas variant) and *)
(* src/api/index.py (PyMuPDF variant): the /quiz endpoint, the background  *)
(* runs of solve_quiz on the single asyncio event loop, and the pipeline   *)
(* of one run (navigate, extract, parse, dispatch, download, sum, submit,  *)
(* chain, close).                                                          *)
(*                                                                         *)
(* Text is a sequence of characters, each character a one-character        *)
(* string; "ldquo" and "rdquo" name U+201C and U+201D.  An absent value    *)
(* (Python None, a missing JSON key, ...) is a one-element sequence whose  *)
(* element is a bracketed name, which no text equals.                      *)
(***************************************************************************)
EXTENDS Integers, Sequences, FiniteSets, TLC

VARIABLES
    SECRET,       \* module global SECRET = os.getenv("SECRET")
    variant,      \* which source file is deployed: "main" or "index"
    pending,      \* tasks added to a response's BackgroundTasks, not yet started
    received,     \* how many requests /quiz has received
    runs,         \* the runs of solve_quiz in progress, in start order
    finished,     \* the runs that have ended, as they were at their end
    loop,         \* the run that occupies the event loop between two awaits (0: none)
    reply,        \* the last request to /quiz and the status of its response
    data_pdf      \* the file "data.pdf" of the working directory: <<>> or <<its bytes>>

vars == <<SECRET, variant, pending, received, runs, finished, loop, reply, data_pdf>>

(***************************************************************************)
(* Bounds of the model.                                                    *)
(***************************************************************************)
\* requests POSTed to /quiz that the model follows
MaxRequests == 2
\* space-separated words of a generated question text
MaxWords == 2
\* data rows of a generated table
MaxRows == 2

(***************************************************************************)
(* Characters and strings.                                                 *)
(***************************************************************************)
None == <<"<None>">>
Absent == <<"<absent>">>
JNull == <<"<null>">>
NoAnchor == <<"<no anchor>">>
NoHref == <<"<no href>">>

Lower == {"a", "b", "c", "d", "e", "f", "g", "h", "i", "j", "k", "l", "m",
          "n", "o", "p", "q", "r", "s", "t", "u", "v", "w", "x", "y", "z"}
Upper == {"A", "B", "C", "D", "E", "F", "G", "H", "I", "J", "K", "L", "M",
          "N", "O", "P", "Q", "R", "S", "T", "U", "V", "W", "X", "Y", "Z"}
Digits == {"0", "1", "2", "3", "4", "5", "6", "7", "8", "9"}
HexDigits == Digits \cup {"a", "b", "c", "d", "e", "f", "A", "B", "C", "D", "E", "F"}

SUBMIT == <<"s", "u", "b", "m", "i", "t">>
HTTP == <<"h", "t", "t", "p", ":", "/", "/">>
HTTPS == <<"h", "t", "t", "p", "s", ":", "/", "/">>
MARKER == <<"s", "u", "m", " ", "o", "f", " ", "t", "h", "e", " ", "ldquo",
            "v", "a", "l", "u", "e", "rdquo", " ", "c", "o", "l", "u", "m", "n">>
VALUE == <<"v", "a", "l", "u", "e">>

\* s[i..] starts with p
StartsWith(s, i, p) ==
    /\ i + Len(p) - 1 <= Len(s)
    /\ SubSeq(s, i, i + Len(p) - 1) = p

\* Python's `p in s` on strings
Contains(s, p) == \E i \in 1..(Len(s) - Len(p) + 1) : StartsWith(s, i, p)

\* Python truthiness of an optional string
Truthy(s) == s # None /\ s # <<>>

(***************************************************************************)
(* Quiz Parser: re.findall(r'https?://(?:[-\w.]|(?:%[\da-fA-F]{2}))+', t)  *)
(* and the scan for the first match containing "submit".                   *)
(***************************************************************************)
\* \w on the characters of the model: letters, digits and the underscore
IsWordChar(c) == c \in Lower \cup Upper \cup Digits \cup {"_"}

\* characters matched by `https?://` at i (0: no match)
SchemeLen(s, i) ==
    IF StartsWith(s, i, HTTPS) THEN Len(HTTPS)
    ELSE IF StartsWith(s, i, HTTP) THEN Len(HTTP)
    ELSE 0

\* characters matched by one round of (?:[-\w.]|(?:%[\da-fA-F]{2})) at j (0: none)
UnitLen(s, j) ==
    IF j > Len(s) THEN 0
    ELSE IF s[j] = "-" \/ IsWordChar(s[j]) \/ s[j] = "." THEN 1
    ELSE IF /\ s[j] = "%"
            /\ j + 2 <= Len(s)
            /\ s[j + 1] \in HexDigits
            /\ s[j + 2] \in HexDigits THEN 3
    ELSE 0

\* the greedy `+`: the index after the last round that matches from j on
RECURSIVE BodyEnd(_, _)
BodyEnd(s, j) == IF UnitLen(s, j) = 0 THEN j ELSE BodyEnd(s, j + UnitLen(s, j))

\* re.findall from index i: leftmost matches, not overlapping, in order
RECURSIVE re_findall_from(_, _)
re_findall_from(s, i) ==
    IF i > Len(s) THEN <<>>
    ELSE LET k == SchemeLen(s, i)
             e == BodyEnd(s, i + k)
         IN  IF k > 0 /\ e > i + k
             THEN <<SubSeq(s, i, e - 1)>> \o re_findall_from(s, e)
             ELSE re_findall_from(s, i + 1)

re_findall(s) == re_findall_from(s, 1)

RECURSIVE find_submission_url_last(_)
\* the scan without its break: the last URL containing "submit" is kept
find_submission_url_last(urls) ==
    IF urls = <<>> THEN None
    ELSE IF Truthy(find_submission_url_last(Tail(urls)))
         THEN find_submission_url_last(Tail(urls))
    ELSE IF Contains(Head(urls), SUBMIT) THEN Head(urls)
    ELSE None

\* for url in urls: if "submit" in url: submission_url = url; break
RECURSIVE find_submission_url(_)
find_submission_url(urls) ==
    IF urls = <<>> THEN None
    ELSE IF Contains(Head(urls), SUBMIT) THEN Head(urls)
    ELSE find_submission_url(Tail(urls))

\* a parsed document: soup.get_text() and the first anchor
\*   anchor: NoAnchor (soup.find('a') is None), NoHref (no href attribute),
\*           or the href's text
Doc(text, anchor) == [text |-> text, anchor |-> anchor]

\* the dispatch condition with `or` in the place of `and`
is_pdf_sum_quiz_or(question_text, download_link) ==
    Contains(question_text, MARKER) \/ Truthy(download_link)

\* if "sum of the ldquo value rdquo column" in question_text and download_link
is_pdf_sum_quiz(question_text, download_link) ==
    Contains(question_text, MARKER) /\ Truthy(download_link)

(***************************************************************************)
(* Quiz Solver: the sum of the "value" column.  Numbers are kept in tenths *)
(* (5.5 is 55); a cell is a text or None.                                  *)
(***************************************************************************)
RECURSIVE DigitsValue(_)
DigitsValue(s) ==
    IF s = <<>> THEN 0
    ELSE 10 * DigitsValue(SubSeq(s, 1, Len(s) - 1))
         + (CHOOSE d \in 0..9 : ToString(d) = s[Len(s)])

AllDigits(s) == s # <<>> /\ \A i \in 1..Len(s) : s[i] \in Digits

\* a cell that reads as an integer literal
IsIntText(c) == c # None /\ AllDigits(c)

\* a cell that reads as digits "." digit
IsDecText(c) ==
    /\ c # None
    /\ Len(c) >= 3
    /\ c[Len(c) - 1] = "."
    /\ c[Len(c)] \in Digits
    /\ AllDigits(SubSeq(c, 1, Len(c) - 2))

\* a cell that float() and pd.to_numeric read as a number
IsNumeric(c) == IsIntText(c) \/ IsDecText(c)

\* the number a numeric cell reads as, in tenths
Tenths(c) ==
    IF IsIntText(c) THEN 10 * DigitsValue(c)
    ELSE 10 * DigitsValue(SubSeq(c, 1, Len(c) - 2)) + DigitsValue(<<c[Len(c)]>>)

\* the indexes of the header cells equal to "value"
ValueColumns(header) == {i \in 1..Len(header) : header[i] = VALUE}

NoAnswer == [kind |-> "None", val |-> 0]
Answer(kind, val) == [kind |-> kind, val |-> val]

\* the cell of a row in a column; a row too short has none
CellAt(row, col) == IF col <= Len(row) THEN row[col] ELSE None

RECURSIVE SumCells(_, _)
\* the sum over the rows of the numeric cells of column col; other cells add 0
SumCells(rows, col) ==
    IF rows = <<>> THEN 0
    ELSE (IF IsNumeric(CellAt(Head(rows), col)) THEN Tenths(CellAt(Head(rows), col)) ELSE 0)
         + SumCells(Tail(rows), col)

\* df = pd.DataFrame(table[1:], columns=table[0])
\* df['value'] = pd.to_numeric(df['value'], errors='coerce').fillna(0)
\* answer = df['value'].sum()
\*   a row longer than the header, or every row shorter: ValueError;
\*   no "value" column: KeyError; two of them: df['value'] is a DataFrame and
\*   pd.to_numeric raises TypeError; every cell an integer literal: dtype
\*   int64 and the sum a numpy.int64; otherwise float64 and a numpy.float64
sum_value_column_pandas(table) ==
    LET header == Head(table)
        rows == Tail(table)
        cols == ValueColumns(header)
        col == CHOOSE i \in cols : TRUE
    IN  IF \/ \E i \in 1..Len(rows) : Len(rows[i]) > Len(header)
           \/ (rows # <<>> /\ \A i \in 1..Len(rows) : Len(rows[i]) < Len(header))
        THEN [raised |-> "ValueError", answer |-> NoAnswer]
        ELSE IF cols = {} THEN [raised |-> "KeyError", answer |-> NoAnswer]
        ELSE IF Cardinality(cols) > 1 THEN [raised |-> "TypeError", answer |-> NoAnswer]
        ELSE IF \A i \in 1..Len(rows) : IsIntText(CellAt(rows[i], col))
             THEN [raised |-> "", answer |-> Answer("int64", SumCells(rows, col))]
             ELSE [raised |-> "", answer |-> Answer("float64", SumCells(rows, col))]

RECURSIVE fitz_loop(_, _, _)
\* total_sum = 0; for row in rows: try: total_sum += float(row[value_index])
\*                                 except (ValueError, TypeError): continue
\*   total: [kind, val]; a row without the cell raises IndexError
fitz_loop(rows, value_index, total) ==
    IF rows = <<>> THEN [raised |-> "", answer |-> total]
    ELSE IF value_index > Len(Head(rows))
         THEN [raised |-> "IndexError", answer |-> NoAnswer]
    ELSE LET c == Head(rows)[value_index]
         IN  IF IsNumeric(c)
             THEN fitz_loop(Tail(rows), value_index, Answer("float", total.val + Tenths(c)))
             ELSE fitz_loop(Tail(rows), value_index, total)

\* the loop of index.py without the lookup of the header: a table with no
\* "value" column sums to 0
sum_value_column_fitz_zero(table) ==
    LET cols == ValueColumns(Head(table))
    IN  IF cols = {} THEN [raised |-> "", answer |-> Answer("int", 0)]
        ELSE fitz_loop(Tail(table), CHOOSE i \in cols : \A j \in cols : i <= j,
                       Answer("int", 0))

\* header = table_data[0]; rows = table_data[1:]
\* value_index = header.index("value")   (ValueError: abort)
sum_value_column_fitz(table) ==
    LET header == Head(table)
        rows == Tail(table)
        cols == ValueColumns(header)
    IN  IF cols = {} THEN [raised |-> "ValueError", answer |-> NoAnswer]
        ELSE fitz_loop(rows, CHOOSE i \in cols : \A j \in cols : i <= j, Answer("int", 0))

\* json.dumps of the payload inside requests.post: a numpy.int64 is no int
\* (TypeError); a numpy.float64 is a float
json_serializable(answer) == answer.kind \in {"int", "float", "float64"}

(***************************************************************************)
(* The environment: what the requests, the pages, the downloads and the    *)
(* submission endpoint can be.                                             *)
(***************************************************************************)
NoSecret == "<None>"
QuizRequest(email, secret, url) == [email |-> email, secret |-> secret, url |-> url]
NoRequest == QuizRequest("", "", None)

URL_A == <<"h", "t", "t", "p", "s", ":", "/", "/", "x", ".", "y", "/", "q", "1">>
NEXT_URL == <<"h", "t", "t", "p", "s", ":", "/", "/", "x", ".", "y", "/", "q", "2">>
HREF_pdf == <<"h", "t", "t", "p", "s", ":", "/", "/", "x", ".", "y", "/", "d", ".", "p", "d", "f">>
U_submit == <<"h", "t", "t", "p", "s", ":", "/", "/", "s", "u", "b", "m", "i", "t", ".", "x">>
U_other == <<"h", "t", "t", "p", "s", ":", "/", "/", "x", ".", "y">>

\* the requests POSTed to /quiz
Requests == {QuizRequest("a@b.c", s, URL_A) : s \in {"s3cret", "wrong", ""}}

\* the response of /quiz to the request `to`: 200 with the acknowledgement,
\* or the HTTPException 403
Reply(status, to) == [status |-> status, to |-> to]
NoReply == Reply(0, NoRequest)

\* the question texts and first anchors of the pages served
PageTexts == {MARKER \o <<" ">> \o U_other \o <<" ">> \o U_submit,
              U_submit,
              MARKER \o <<" ">> \o U_other}
PageAnchors == {NoAnchor, NoHref, <<>>, HREF_pdf}
PageDocs == {Doc(t, a) : t \in PageTexts, a \in PageAnchors}
NoDoc == Doc(None, NoAnchor)

\* tables: a sequence of rows, the header first; no table is the empty sequence
NoTable == <<>>
C_id == <<"i", "d">>
T_example == <<<<C_id, VALUE>>,
               <<<<"1">>, <<"1", "0">>>>, <<<<"2">>, <<"a", "b", "c">>>>, <<<<"3">>, <<"5", ".", "5">>>>>>
T_ints == <<<<C_id, VALUE>>, <<<<"1">>, <<"1", "0">>>>, <<<<"2">>, <<"5">>>>>>
T_nonnumeric == <<<<VALUE, C_id>>, <<<<>>, <<"1">>>>, <<None, <<"2">>>>>>
T_novalue == <<<<C_id, <<"V", "a", "l", "u", "e">>>>, <<<<"1">>, <<"1", "0">>>>>>
T_twovalues == <<<<VALUE, VALUE>>, <<<<"1">>, <<"2">>>>>>
PageTables == {T_example, T_ints, T_nonnumeric, T_novalue, T_twovalues}

\* the bytes a download returns, as what a PDF library reads from them
Pdf(valid, pages, table) == [valid |-> valid, pages |-> pages, table |-> table]
NoPdf == Pdf(FALSE, 0, NoTable)
PdfFiles == {NoPdf, Pdf(TRUE, 1, NoTable), Pdf(TRUE, 2, NoTable)}
            \cup {Pdf(TRUE, 2, t) : t \in PageTables}

\* what the submission endpoint answers
\*   kind: "error" (no response: transport failure or timeout), "status" (a
\*   non-2xx status), "notjson", "array" (JSON, not an object), "object"
\*   correct: Absent or a JSON literal; url: Absent, JNull or a text
Response(kind, correct, url) == [kind |-> kind, correct |-> correct, url |-> url]
NoResponse == Response("", Absent, Absent)
J_true == <<"true">>
J_false == <<"false">>
J_yes == <<"y", "e", "s">>
Responses == {Response(k, Absent, Absent) : k \in {"error", "status", "notjson", "array"}}
             \cup {Response("object", c, u) : c \in {Absent, J_true, J_false, J_yes},
                                             u \in {Absent, JNull, <<>>, NEXT_URL}}

\* Python truthiness of response_json.get("correct"): None, false, "" and 0
\* are false, true and a non-empty string are true
JsonTruthy(v) == v \notin {Absent, JNull, J_false, <<>>, <<"0">>}

(***************************************************************************)
(* One run of solve_quiz.                                                  *)
(***************************************************************************)
NoPayload == [email |-> "", secret |-> "", url |-> None, answer |-> NoAnswer, to |-> None]

\* the locals of a run that the code after the pipeline no longer reads
Locals == [decoded |-> NoDoc, question_text |-> None, download_link |-> None,
           submission_url |-> None, pdf |-> NoPdf, table |-> NoTable,
           answer |-> NoAnswer, payload |-> NoPayload, response |-> NoResponse]

\* solve_quiz(quiz_request) up to `browser = None` and the first await
NewRun(q) ==
    [req |-> q, pc |-> "playwright", outcome |-> "", browser |-> "None",
     launched |-> FALSE, closeCalls |-> 0, navs |-> 0, gets |-> 0, posts |-> 0,
     lookups |-> 0, answered |-> FALSE, found |-> FALSE, chained |-> NoRequest,
     stored |-> FALSE, l |-> Locals]

\* the runs the model can hold; Started(r): run r exists
RunIds == 1..MaxRequests
Started(r) == r <= Len(runs)

\* a return or a caught exception: the run leaves the `async with` block for
\* the finally clause, which reads only `browser`
Leave(run, outcome) == [run EXCEPT !.pc = "finally", !.outcome = outcome, !.l = Locals]

\* the run r goes on as `run`; it keeps the event loop unless it reached an await
Step(r, run, holds) ==
    /\ runs' = [runs EXCEPT ![r] = run]
    /\ loop' = IF holds /\ run.pc # "finally" THEN r ELSE 0
    /\ UNCHANGED <<SECRET, variant, pending, received, finished, reply, data_pdf>>

\* the outcome of an exception raised inside the solver's try block
\*   main.py: except RequestException / (IOError, pdfplumber.PDFSyntaxError) /
\*   (KeyError, ValueError); anything else reaches the top-level handler, and so
\*   does every exception when pdfplumber has no attribute PDFSyntaxError
\*   (building the second except clause's tuple then raises AttributeError)
\*   index.py: except RequestException / except Exception, and the inner
\*   except ValueError around header.index("value")
solver_outcomes(v, raised) ==
    IF v = "main"
    THEN CASE raised \in {"IOError", "PDFSyntaxError"} -> {"pdf_failed", "unexpected"}
           [] raised \in {"KeyError", "ValueError"} -> {"table_error", "unexpected"}
           [] OTHER -> {"unexpected"}
    ELSE CASE raised = "ValueError" -> {"table_error"}
           [] OTHER -> {"pdf_failed"}

\* the Answer of the deployed variant for a table
sum_value_column(v, table) ==
    IF v = "main" THEN sum_value_column_pandas(table) ELSE sum_value_column_fitz(table)

\* a parser that gives up for want of a submission URL only when it found no
\* download link either
parse_quiz_link_first(doc) ==
    LET submission_url == find_submission_url(re_findall(doc.text))
        download_link == IF doc.anchor = NoAnchor THEN None ELSE doc.anchor
    IN  IF doc.anchor = NoHref
        THEN [outcome |-> "extract_error", download_link |-> None, submission_url |-> None]
        ELSE IF ~Truthy(submission_url) /\ ~Truthy(download_link)
        THEN [outcome |-> "no_submission_url", download_link |-> download_link,
              submission_url |-> None]
        ELSE [outcome |-> "", download_link |-> download_link,
              submission_url |-> submission_url]

\* the parser without its return when no URL contains "submit"
parse_quiz_no_return(doc) ==
    IF doc.anchor = NoHref
    THEN [outcome |-> "extract_error", download_link |-> None, submission_url |-> None]
    ELSE [outcome |-> "",
          download_link |-> IF doc.anchor = NoAnchor THEN None ELSE doc.anchor,
          submission_url |-> find_submission_url(re_findall(doc.text))]

\* lines 79-99: the first anchor's href, the URL scan, the early returns
\*   outcome "": the run goes on to the dispatch
parse_quiz(doc) ==
    LET submission_url == find_submission_url(re_findall(doc.text))
        download_link == IF doc.anchor = NoAnchor THEN None ELSE doc.anchor
    IN  IF doc.anchor = NoHref
        THEN [outcome |-> "extract_error", download_link |-> None, submission_url |-> None]
        ELSE IF ~Truthy(submission_url)
        THEN [outcome |-> "no_submission_url", download_link |-> download_link,
              submission_url |-> None]
        ELSE [outcome |-> "", download_link |-> download_link,
              submission_url |-> submission_url]

\* a response handler that takes the follow-up url of any JSON object,
\* whatever its correct field
handle_response_any_url(req, resp) ==
    IF resp.kind \in {"error", "status", "notjson", "array"}
    THEN [outcomes |-> {"submit_failed"}, chained |-> NoRequest]
    ELSE IF resp.url # Absent /\ resp.url # JNull /\ resp.url # <<>>
         THEN [outcomes |-> {"chained"},
               chained |-> QuizRequest(req.email, req.secret, resp.url)]
         ELSE [outcomes |-> {"finished"}, chained |-> NoRequest]

\* lines 155-181: raise_for_status, .json(), the chaining decision
\*   the outcomes the handlers can give, and the QuizRequest constructed
handle_response(req, resp) ==
    CASE resp.kind \in {"error", "status"} ->
            [outcomes |-> {"submit_failed"}, chained |-> NoRequest]
      [] resp.kind = "notjson" ->
            [outcomes |-> {"submit_failed", "bad_json", "unexpected"}, chained |-> NoRequest]
      [] resp.kind = "array" ->
            [outcomes |-> {"unexpected"}, chained |-> NoRequest]
      [] OTHER ->
            IF JsonTruthy(resp.correct)
            THEN IF resp.url # Absent /\ resp.url # JNull /\ resp.url # <<>>
                 THEN [outcomes |-> {"chained"},
                       chained |-> QuizRequest(req.email, req.secret, resp.url)]
                 ELSE [outcomes |-> {"finished"}, chained |-> NoRequest]
            ELSE [outcomes |-> {"incorrect"}, chained |-> NoRequest]

(***************************************************************************)
(* Actions.  A coroutine runs alone from one await to the next: `loop`     *)
(* names the run that is between two awaits.  requests.get/post and the    *)
(* PDF code are synchronous calls, so a run keeps the loop from the return *)
(* of page.evaluate()/page.content() to the end of the `async with` block. *)
(***************************************************************************)
\* an endpoint without the comparison of the secrets
receive_quiz_no_check(q) ==
    /\ loop = 0
    /\ received < MaxRequests
    /\ received' = received + 1
    /\ pending' = Append(pending, q)
    /\ reply' = Reply(200, q)
    /\ UNCHANGED <<SECRET, variant, runs, finished, loop, data_pdf>>

\* an endpoint whose SECRET defaults to the empty string: os.getenv("SECRET", "")
receive_quiz_default_empty(q) ==
    /\ loop = 0
    /\ received < MaxRequests
    /\ received' = received + 1
    /\ IF q.secret # (IF SECRET = NoSecret THEN "" ELSE SECRET)
       THEN /\ reply' = Reply(403, q)
            /\ UNCHANGED pending
       ELSE /\ pending' = Append(pending, q)
            /\ reply' = Reply(200, q)
    /\ UNCHANGED <<SECRET, variant, runs, finished, loop, data_pdf>>

\* @app.post("/quiz")
receive_quiz(q) ==
    /\ loop = 0
    /\ received < MaxRequests
    /\ received' = received + 1
    /\ IF q.secret # SECRET
       THEN /\ reply' = Reply(403, q)
            /\ UNCHANGED pending
       ELSE /\ pending' = Append(pending, q)
            /\ reply' = Reply(200, q)
    /\ UNCHANGED <<SECRET, variant, runs, finished, loop, data_pdf>>

\* starlette runs the response's background task: solve_quiz starts
StartRun(i) ==
    /\ loop = 0
    /\ i \in 1..Len(pending)
    /\ runs' = Append(runs, NewRun(pending[i]))
    /\ pending' = SubSeq(pending, 1, i - 1) \o SubSeq(pending, i + 1, Len(pending))
    /\ UNCHANGED <<SECRET, variant, received, finished, loop, reply, data_pdf>>

\* async with async_playwright() as p
EnterPlaywright(r) ==
    /\ Started(r)
    /\ loop = 0
    /\ runs[r].pc = "playwright"
    /\ \E ok \in BOOLEAN :
         Step(r, IF ok THEN [runs[r] EXCEPT !.pc = "launch"]
                 ELSE Leave(runs[r], "unexpected"), FALSE)

\* browser = await p.chromium.launch()
Launch(r) ==
    /\ Started(r)
    /\ loop = 0
    /\ runs[r].pc = "launch"
    /\ \E ok \in BOOLEAN :
         Step(r, IF ok THEN [runs[r] EXCEPT !.pc = "goto", !.browser = "open",
                                            !.launched = TRUE]
                 ELSE Leave(runs[r], "nav_failed"), FALSE)

\* page = await browser.new_page(); await page.goto(url, timeout=30000)
Goto(r) ==
    /\ Started(r)
    /\ loop = 0
    /\ runs[r].pc = "goto"
    /\ \E res \in {"new_page_error", "goto_error", "ok"} :
         Step(r, CASE res = "new_page_error" -> Leave(runs[r], "nav_failed")
                   [] res = "goto_error" ->
                        Leave([runs[r] EXCEPT !.navs = @ + 1], "nav_failed")
                   [] OTHER -> [runs[r] EXCEPT !.navs = @ + 1, !.pc = "evaluate"],
              FALSE)

\* script_content = await page.evaluate(...); split('`')[1]; b64decode; decode
Evaluate(r) ==
    /\ Started(r)
    /\ loop = 0
    /\ runs[r].pc = "evaluate"
    /\ \/ Step(r, [runs[r] EXCEPT !.pc = "content"], FALSE)
       \/ \E doc \in PageDocs :
            Step(r, [runs[r] EXCEPT !.pc = "parse", !.l.decoded = doc], TRUE)

\* except Exception: decoded_content = await page.content()
Content(r) ==
    /\ Started(r)
    /\ loop = 0
    /\ runs[r].pc = "content"
    /\ \/ Step(r, Leave(runs[r], "unexpected"), FALSE)
       \/ \E doc \in PageDocs :
            Step(r, [runs[r] EXCEPT !.pc = "parse", !.l.decoded = doc], TRUE)

\* soup = BeautifulSoup(decoded_content, 'lxml') ... the quiz detail extraction
Parse(r) ==
    /\ Started(r)
    /\ loop = r
    /\ runs[r].pc = "parse"
    /\ \/ Step(r, Leave(runs[r], "unexpected"), TRUE)
       \/ LET p == parse_quiz(runs[r].l.decoded)
          IN  Step(r, IF p.outcome # "" THEN Leave(runs[r], p.outcome)
                      ELSE [runs[r] EXCEPT !.pc = "dispatch",
                                           !.found = Truthy(p.submission_url),
                                           !.l.question_text = runs[r].l.decoded.text,
                                           !.l.download_link = p.download_link,
                                           !.l.submission_url = p.submission_url],
                   TRUE)

\* if <marker> in question_text and download_link: ... else: return
Dispatch(r) ==
    /\ Started(r)
    /\ loop = r
    /\ runs[r].pc = "dispatch"
    /\ Step(r, IF is_pdf_sum_quiz(runs[r].l.question_text, runs[r].l.download_link)
               THEN [runs[r] EXCEPT !.pc = "download"]
               ELSE Leave(runs[r], "not_recognized"), TRUE)

\* pdf_response = requests.get(download_link); raise_for_status()
\* main.py: with open("data.pdf", "wb") as f: f.write(pdf_response.content)
\*   at "download" requests.get has been called and has not returned
Download(r) ==
    /\ Started(r)
    /\ loop = r
    /\ runs[r].pc = "download"
    /\ \/ Step(r, Leave([runs[r] EXCEPT !.gets = @ + 1], "download_failed"), TRUE)
       \/ \E pdf \in PdfFiles :
            /\ runs' = [runs EXCEPT ![r] = [runs[r] EXCEPT !.gets = @ + 1,
                                                            !.pc = "open_pdf",
                                                            !.stored = (variant = "main"),
                                                            !.l.pdf = pdf]]
            /\ data_pdf' = IF variant = "main" THEN <<pdf>> ELSE data_pdf
            /\ UNCHANGED <<SECRET, variant, pending, received, finished, loop, reply>>

\* pdfplumber.open("data.pdf") / fitz.open(stream=...); the page count
\*   main.py reads the file, index.py the bytes of its own response
OpenPdf(r) ==
    /\ Started(r)
    /\ loop = r
    /\ runs[r].pc = "open_pdf"
    /\ LET pdf == IF variant = "main" THEN data_pdf[1] ELSE runs[r].l.pdf
       IN  IF ~pdf.valid
           THEN \E o \in solver_outcomes(variant, "PDFSyntaxError") :
                    Step(r, Leave(runs[r], o), TRUE)
           ELSE Step(r, IF pdf.pages < 2 THEN Leave(runs[r], "too_few_pages")
                        ELSE [runs[r] EXCEPT !.pc = "table", !.l.pdf = pdf], TRUE)

\* the outcomes of a page 2 without a table: main.py's extract_table() gives
\* None; index.py's find_tables() gives a TableFinder, whose truth value and
\* tables[0] depend on the library (falsy, or IndexError)
no_table_outcomes(v) == IF v = "main" THEN {"no_table"} ELSE {"no_table", "pdf_failed"}

\* table = page_two.extract_table() / tables = page_two.find_tables()
ExtractTable(r) ==
    /\ Started(r)
    /\ loop = r
    /\ runs[r].pc = "table"
    /\ IF runs[r].l.pdf.table = NoTable
       THEN \E o \in no_table_outcomes(variant) :
                Step(r, Leave([runs[r] EXCEPT !.lookups = @ + 1], o), TRUE)
       ELSE Step(r, [runs[r] EXCEPT !.lookups = @ + 1, !.pc = "sum",
                                    !.l.table = runs[r].l.pdf.table], TRUE)

\* the column sum of the deployed variant
Sum(r) ==
    /\ Started(r)
    /\ loop = r
    /\ runs[r].pc = "sum"
    /\ LET res == sum_value_column(variant, runs[r].l.table)
       IN  IF res.raised # ""
           THEN \E o \in solver_outcomes(variant, res.raised) :
                    Step(r, Leave(runs[r], o), TRUE)
           ELSE Step(r, [runs[r] EXCEPT !.pc = "submit",
                                        !.answered = (res.answer # NoAnswer),
                                        !.l.answer = res.answer], TRUE)

\* submission_payload = {...}; requests.post(submission_url, json=..., timeout=30)
\*   the request is sent unless the payload cannot be serialised
Submit(r) ==
    /\ Started(r)
    /\ loop = r
    /\ runs[r].pc = "submit"
    /\ runs[r].l.answer # NoAnswer
    /\ Step(r, IF ~json_serializable(runs[r].l.answer) THEN Leave(runs[r], "unexpected")
               ELSE [runs[r] EXCEPT !.pc = "posted", !.posts = @ + 1,
                        !.l.payload = [email |-> runs[r].req.email,
                                       secret |-> runs[r].req.secret,
                                       url |-> runs[r].req.url,
                                       answer |-> runs[r].l.answer,
                                       to |-> runs[r].l.submission_url]], TRUE)

\* the POST returns (or raises); of the locals, the code that follows reads
\* only the response
Respond(r) ==
    /\ Started(r)
    /\ loop = r
    /\ runs[r].pc = "posted"
    /\ \E resp \in Responses :
         Step(r, [runs[r] EXCEPT !.pc = "response",
                                 !.l = [Locals EXCEPT !.response = resp]], TRUE)

\* raise_for_status(), .json(), the chaining decision: the new QuizRequest is
\* added to a BackgroundTasks object local to this run
Chain(r) ==
    /\ Started(r)
    /\ loop = r
    /\ runs[r].pc = "response"
    /\ LET h == handle_response(runs[r].req, runs[r].l.response)
       IN  \E o \in h.outcomes :
              Step(r, Leave([runs[r] EXCEPT !.chained = h.chained], o), TRUE)

\* what is left of a run once solve_quiz has ended: its request, the
\* QuizRequest it constructed for chaining, its browser, how often close()
\* was called, and whether an exception left solve_quiz
Ended(run, browser, closeCalls, escaped) ==
    [req |-> run.req, chained |-> run.chained, launched |-> run.launched,
     browser |-> browser, closeCalls |-> closeCalls, escaped |-> escaped]

\* a teardown placed at the end of the try block: the early return after a
\* failed navigation does not reach it
close_browser_in_try(run, raised) ==
    IF run.browser # "None" /\ run.outcome # "nav_failed"
    THEN Ended(run, IF raised THEN "close_failed" ELSE "closed", run.closeCalls + 1, raised)
    ELSE Ended(run, run.browser, run.closeCalls, FALSE)

\* finally: if browser: await browser.close()
\*   close() may raise; nothing catches an exception raised in the finally
\*   clause, and the state of a browser whose close() raised is not known
close_browser(run, raised) ==
    IF run.browser # "None"
    THEN Ended(run, IF raised THEN "close_failed" ELSE "closed", run.closeCalls + 1, raised)
    ELSE Ended(run, run.browser, run.closeCalls, FALSE)

\* the finally clause, and the end of solve_quiz
Finally(r) ==
    /\ Started(r)
    /\ loop = 0
    /\ runs[r].pc = "finally"
    /\ \E raised \in (IF runs[r].browser # "None" THEN BOOLEAN ELSE {FALSE}) :
         finished' = finished \cup {close_browser(runs[r], raised)}
    /\ runs' = SubSeq(runs, 1, r - 1) \o SubSeq(runs, r + 1, Len(runs))
    /\ UNCHANGED <<SECRET, variant, pending, received, loop, reply, data_pdf>>

Init ==
    /\ SECRET \in {"s3cret", NoSecret}
    /\ variant \in {"main", "index"}
    /\ pending = <<>>
    /\ received = 0
    /\ runs = <<>>
    /\ finished = {}
    /\ loop = 0
    /\ reply = NoReply
    /\ data_pdf = <<>>

Next ==
    \/ \E q \in Requests : receive_quiz(q)
    \/ \E i \in RunIds : StartRun(i)
    \/ \E r \in RunIds :
         \/ EnterPlaywright(r)
         \/ Launch(r)
         \/ Goto(r)
         \/ Evaluate(r)
         \/ Content(r)
         \/ Parse(r)
         \/ Dispatch(r)
         \/ Download(r)
         \/ OpenPdf(r)
         \/ ExtractTable(r)
         \/ Sum(r)
         \/ Submit(r)
         \/ Respond(r)
         \/ Chain(r)
         \/ Finally(r)

Spec == Init /\ [][Next]_vars

\* the steps that are bound to happen once they can: starlette starts every
\* task it was given; launch() and goto() carry Playwright's 30 s timeout and
\* requests.post a timeout of 30 s; evaluate(), content() and close() are
\* answered by the local browser; the rest is code that runs to its next
\* await.  requests.get carries no timeout and need never return, and no
\* client need ever send a request.
Fairness ==
    /\ \A i \in RunIds : WF_vars(StartRun(i))
    /\ \A r \in RunIds :
          /\ WF_vars(EnterPlaywright(r)) /\ WF_vars(Launch(r)) /\ WF_vars(Goto(r))
          /\ WF_vars(Evaluate(r)) /\ WF_vars(Content(r)) /\ WF_vars(Parse(r))
          /\ WF_vars(Dispatch(r)) /\ WF_vars(OpenPdf(r)) /\ WF_vars(ExtractTable(r))
          /\ WF_vars(Sum(r)) /\ WF_vars(Submit(r)) /\ WF_vars(Respond(r))
          /\ WF_vars(Chain(r)) /\ WF_vars(Finally(r))

SpecLive == Spec /\ Fairness

(***************************************************************************)
(* The Quiz Parser on generated question texts: a run that has its decoded *)
(* content and is about to parse it.                                       *)
(***************************************************************************)
Schemes == {HTTP, HTTPS}
\* what follows the scheme in a word: a host with "submit", one without, an
\* underscore, a percent-encoded byte, a "%" that encodes nothing
Bodies == {SUBMIT,
           <<"F", ".", "-">>,
           <<"_">> \o SUBMIT,
           SUBMIT \o <<"%", "4", "F">>,
           <<"s", "u", "b", "%", "4">> \o <<"m", "i", "t">>}
Words == {s \o b : s \in Schemes, b \in Bodies}

RECURSIVE TextsOf(_)
\* the texts of at most n words, separated by spaces
TextsOf(n) ==
    IF n = 0 THEN {<<>>}
    ELSE TextsOf(n - 1)
         \cup {IF t = <<>> THEN w ELSE w \o <<" ">> \o t : w \in Words, t \in TextsOf(n - 1)}

GenDocs == {Doc(t, a) : t \in TextsOf(MaxWords), a \in {NoAnchor, NoHref}}

\* a run of solve_quiz that has reached `soup = BeautifulSoup(decoded_content)`
RunAtParse(q, doc) ==
    [NewRun(q) EXCEPT !.pc = "parse", !.browser = "open", !.launched = TRUE,
                      !.navs = 1, !.l.decoded = doc]

InitParser ==
    /\ SECRET = "s3cret"
    /\ variant \in {"main", "index"}
    /\ pending = <<>>
    /\ received = 1
    /\ \E doc \in GenDocs :
         runs = <<RunAtParse(QuizRequest("a@b.c", "s3cret", URL_A), doc)>>
    /\ finished = {}
    /\ loop = 1
    /\ reply = Reply(200, QuizRequest("a@b.c", "s3cret", URL_A))
    /\ data_pdf = <<>>

NextParser == Parse(1) \/ Dispatch(1) \/ Finally(1)

SpecParser == InitParser /\ [][NextParser]_vars

(***************************************************************************)
(* The solver on generated tables: runs that have extracted the table of   *)
(* page 2, for every table of up to MaxRows data rows over a few headers   *)
(* and cells.                                                              *)
(***************************************************************************)
\* the cells of a "value" column: an integer, a decimal, a word, an empty
\* cell, and a cell the extraction left as None
Cells == {<<"1", "0">>, <<"5", ".", "5">>, <<"a", "b", "c">>, <<>>, None}

\* headers with a column "value": second, first, and twice
Headers == {<<C_id, VALUE>>, <<VALUE, C_id>>, <<VALUE, VALUE>>}

RECURSIVE RowsOf(_, _)
\* the sequences of up to n data rows under header h: the cells of its last
\* "value" column vary, the other column holds "1"
RowsOf(h, n) ==
    IF n = 0 THEN {<<>>}
    ELSE LET last == CHOOSE i \in ValueColumns(h) : \A j \in ValueColumns(h) : j <= i
         IN  {<<>>} \cup {<<[i \in 1..Len(h) |-> IF i = last THEN c ELSE <<"1">>]>> \o t :
                             c \in Cells, t \in RowsOf(h, n - 1)}

GenTables == UNION {{<<h>> \o rows : rows \in RowsOf(h, MaxRows)} : h \in Headers}

\* a run of solve_quiz that has extracted the table of page 2
RunAtSum(q, table) ==
    [NewRun(q) EXCEPT !.pc = "sum", !.browser = "open", !.launched = TRUE,
                      !.navs = 1, !.gets = 1, !.lookups = 1, !.found = TRUE,
                      !.l.question_text = MARKER \o <<" ">> \o U_submit,
                      !.l.download_link = HREF_pdf,
                      !.l.submission_url = U_submit,
                      !.l.pdf = Pdf(TRUE, 2, table),
                      !.l.table = table]

InitSum ==
    /\ SECRET = "s3cret"
    /\ variant \in {"main", "index"}
    /\ pending = <<>>
    /\ received = 1
    /\ \E table \in GenTables :
         /\ runs = <<[RunAtSum(QuizRequest("a@b.c", "s3cret", URL_A), table)
                        EXCEPT !.stored = (variant = "main")]>>
         /\ data_pdf = IF variant = "main" THEN <<Pdf(TRUE, 2, table)>> ELSE <<>>
    /\ finished = {}
    /\ loop = 1
    /\ reply = Reply(200, QuizRequest("a@b.c", "s3cret", URL_A))

NextSum == Sum(1) \/ Submit(1) \/ Finally(1)

SpecSum == InitSum /\ [][NextSum]_vars

(***************************************************************************)
(* C8: the column sum.                                                     *)
(***************************************************************************)
\* C8: for a table whose header has a column "value", the solver computes an
\* Answer, and it is the sum over the data rows of the numeric "value" cells,
\* a cell that is empty, None or not a number adding 0
C8_SumStep(r) ==
    LET table == runs[r].l.table
        cols == ValueColumns(Head(table))
        col == CHOOSE i \in cols : \A j \in cols : i <= j
    IN  (runs[r].pc = "sum" /\ cols # {}) =>
            /\ runs'[r].pc = "submit"
            /\ runs'[r].answered
            /\ runs'[r].l.answer.val = SumCells(Tail(table), col)

\* C8: every step of the solver on a table with a "value" column computes
\* that sum as the Answer
C8_ColumnSum ==
    [][\A r \in RunIds : (Started(r) /\ loop = r /\ runs'[r] # runs[r]) => C8_SumStep(r)]_vars

(***************************************************************************)
(* C7: submission-URL selection.                                           *)
(***************************************************************************)
\* the characters the claim lets follow the scheme: alphanumerics, hyphen, dot
C7_ClaimChars == Lower \cup Upper \cup Digits \cup {"-", "."}

RECURSIVE C7_IsBody(_, _)
\* b is a sequence of characters of cls and percent-encoded bytes
C7_IsBody(b, cls) ==
    \/ b = <<>>
    \/ b[1] \in cls /\ C7_IsBody(Tail(b), cls)
    \/ /\ Len(b) >= 3
       /\ b[1] = "%"
       /\ b[2] \in HexDigits
       /\ b[3] \in HexDigits
       /\ C7_IsBody(SubSeq(b, 4, Len(b)), cls)

\* the URL matches of s as <<first, last>> index pairs: a scheme, then the
\* longest non-empty body
C7_Matches(s, cls) ==
    LET starts == {i \in 1..Len(s) : StartsWith(s, i, HTTP) \/ StartsWith(s, i, HTTPS)}
        from(i) == IF StartsWith(s, i, HTTP) THEN i + Len(HTTP) ELSE i + Len(HTTPS)
        ends(i) == {j \in from(i)..Len(s) : C7_IsBody(SubSeq(s, from(i), j), cls)}
    IN  {<<i, CHOOSE j \in ends(i) : \A j2 \in ends(i) : j2 <= j>> :
            i \in {i2 \in starts : ends(i2) # {}}}

\* the first match, in order of appearance, that contains "submit" (None: none)
C7_FirstSubmit(s, cls) ==
    LET M == {m \in C7_Matches(s, cls) : Contains(SubSeq(s, m[1], m[2]), SUBMIT)}
    IN  IF M = {} THEN None
        ELSE LET m == CHOOSE m \in M : \A n \in M : m[1] <= n[1]
             IN  SubSeq(s, m[1], m[2])

\* a step of run r out of the parser, for a body character class cls: the run
\* goes on only with the first match containing "submit" as its submission
\* URL; with no such match it ends, and has issued no GET and no POST; with
\* one, an anchor with an href (or none) and no exception, it goes on
C7_ParserStep(r, cls) ==
    (Started(r) /\ runs[r].pc = "parse" /\ runs'[r].pc # "parse") =>
        LET doc == runs[r].l.decoded
            want == C7_FirstSubmit(doc.text, cls)
        IN  /\ runs'[r].pc = "dispatch" => runs'[r].l.submission_url = want
            /\ want = None =>
                  /\ runs'[r].pc = "finally"
                  /\ runs'[r].gets = 0
                  /\ runs'[r].posts = 0
            /\ (want # None /\ doc.anchor # NoHref /\ runs'[r].outcome # "unexpected")
                  => runs'[r].pc = "dispatch"

\* C7 as claimed: the submission URL is the first match of scheme + (alphanumerics,
\* hyphen, dot, percent-encoded bytes)+ that contains "submit"; without such a
\* match the run aborts with no download and no submission
C7_Original == [][\A r \in RunIds : C7_ParserStep(r, C7_ClaimChars)]_vars

\* C7 amended: the same, the underscore being one of the characters a match
\* may contain after the scheme (the pattern's \w)
C7_SubmissionUrl == [][\A r \in RunIds : C7_ParserStep(r, C7_ClaimChars \cup {"_"})]_vars

\* a run goes on with a submission URL that is not the first URL of its text
C7_Witness ==
    \E r \in RunIds :
        /\ Started(r)
        /\ runs[r].pc = "dispatch"
        /\ Len(re_findall(runs[r].l.question_text)) >= 2
        /\ runs[r].l.submission_url # re_findall(runs[r].l.question_text)[1]
        /\ Contains(runs[r].l.submission_url, SUBMIT)

(***************************************************************************)
(* Claims on the runs of solve_quiz.                                       *)
(***************************************************************************)
\* the runs in progress
Live == {runs[r] : r \in 1..Len(runs)}

\* the requests for which solve_quiz is scheduled, runs or has run
Scheduled ==
    {pending[i] : i \in 1..Len(pending)} \cup {run.req : run \in Live}
        \cup {e.req : e \in finished}

\* C1: a run whose submission was answered correct = true with a non-empty url
\* U has a QuizRequest with its email and secret and url U scheduled: when
\* the run has ended, solve_quiz is pending, running or has run for it
C1_ChainedRunScheduled ==
    \A e \in finished :
        e.chained # NoRequest =>
            /\ e.chained.email = e.req.email
            /\ e.chained.secret = e.req.secret
            /\ e.chained \in Scheduled

\* C2: a run has issued a POST only if it computed an Answer and found a
\* submission URL; a run that ended at navigation, parsing, dispatch, download
\* or table processing has issued none
C2_PostOnlyWithAnswerAndUrl ==
    \A run \in Live :
        /\ run.posts > 0 => run.answered /\ run.found
        /\ run.pc = "posted" =>
              /\ run.l.answer # NoAnswer
              /\ Truthy(run.l.submission_url)
              /\ run.l.payload.to = run.l.submission_url
        /\ run.outcome \in {"nav_failed", "extract_error", "no_submission_url",
                            "not_recognized", "download_failed", "pdf_failed",
                            "too_few_pages", "no_table", "table_error"}
              => run.posts = 0

\* a run has sent its POST
C2_Witness == \E run \in Live : run.pc = "posted" /\ run.posts = 1

\* C3: a run that computed an Answer sends exactly one POST, carrying the
\* email, secret and url of its QuizRequest and the Answer, to the submission
\* URL it found
C3_ExactlyOnePost ==
    \A run \in Live :
        /\ (run.answered /\ run.pc \in {"posted", "response", "finally"}) => run.posts = 1
        /\ run.pc = "posted" =>
              run.l.payload = [email |-> run.req.email, secret |-> run.req.secret,
                               url |-> run.req.url, answer |-> run.l.answer,
                               to |-> run.l.submission_url]

\* C4: a run that launched a browser closes it exactly once, at its end and on
\* every path to it: while the run is in progress close() has not been
\* called, and once it has ended close() has been called once, and the browser
\* is closed if that call returned; a run that launched none never calls close()
C4_BrowserClosedOnce ==
    /\ \A run \in Live :
          /\ run.closeCalls = 0
          /\ run.launched <=> run.browser = "open"
    /\ \A e \in finished :
          IF e.launched
          THEN e.closeCalls = 1 /\ (~e.escaped => e.browser = "closed")
          ELSE e.closeCalls = 0 /\ e.browser = "None"

\* a run that launched a browser has ended
C4_Witness ==
    \E e \in finished : e.launched /\ e.closeCalls = 1 /\ e.browser = "closed"

\* C5: no exception leaves solve_quiz, whatever step fails
C5_NoExceptionEscapes == \A e \in finished : ~e.escaped

\* C6: a step constructs a chained QuizRequest only on a 2xx response whose
\* JSON body has correct = true and a url that is present and not empty
C6_ChainOnlyOnAccepted ==
    [][\A r \in RunIds :
         (Started(r) /\ runs[r].pc = "response" /\ runs'[r].chained # NoRequest) =>
            /\ runs[r].l.response.kind = "object"
            /\ runs[r].l.response.correct = J_true
            /\ runs[r].l.response.url \notin {Absent, JNull, <<>>}]_vars

\* C9: a download that fails, bytes that are no PDF, a PDF of fewer than 2
\* pages, a page 2 without a table and a header without a cell "value" each
\* end the run with no Answer and no POST; with fewer than 2 pages no table
\* lookup has been made
C9_StructuralStep(r) ==
    LET run == runs[r]
        after == runs'[r]
        aborted == /\ after.pc = "finally"
                   /\ ~after.answered
                   /\ after.posts = 0
                   /\ after.chained = NoRequest
    IN  /\ (run.pc = "download" /\ after.pc # "open_pdf") =>
              aborted /\ after.gets = 1
        /\ (run.pc = "open_pdf" /\ (~run.l.pdf.valid \/ run.l.pdf.pages < 2)) =>
              aborted /\ after.lookups = 0
        /\ (run.pc = "table" /\ run.l.pdf.table = NoTable) => aborted
        /\ (run.pc = "sum" /\ \A i \in 1..Len(Head(run.l.table)) :
                                  Head(run.l.table)[i] # VALUE) => aborted

\* C9: every step of a run on a structural failure of the download, the PDF
\* or the table ends the run with no Answer and no POST
C9_StructuralAbort ==
    [][\A r \in RunIds : (Started(r) /\ loop = r /\ runs'[r] # runs[r]) => C9_StructuralStep(r)]_vars

\* a run has ended on a PDF of one page, after its download and before a lookup
C9_Witness ==
    \E run \in Live :
        /\ run.outcome = "too_few_pages"
        /\ run.gets = 1
        /\ run.lookups = 0

\* C10: the PDF download is issued only if the question text contains the
\* marker phrase and the download link is present and not empty; otherwise the
\* run ends as "not recognized", with no GET and no POST
C10_DispatchStep(r) ==
    LET run == runs[r]
        after == runs'[r]
        pdf_quiz == Contains(run.l.question_text, MARKER)
                      /\ run.l.download_link \notin {None, <<>>}
    IN  /\ (run.pc = "dispatch" /\ pdf_quiz) => after.pc = "download"
        /\ (run.pc = "dispatch" /\ ~pdf_quiz) =>
              /\ after.pc = "finally"
              /\ after.outcome = "not_recognized"
              /\ after.gets = 0
              /\ after.posts = 0
        /\ after.gets > run.gets => (run.pc = "download" /\ pdf_quiz)

\* C10: every step of a run keeps the dispatch rule: a GET only with the
\* marker phrase and a download link, "not recognized" otherwise
C10_Dispatch ==
    [][\A r \in RunIds : (Started(r) /\ loop = r /\ runs'[r] # runs[r]) => C10_DispatchStep(r)]_vars

\* the dispatch has ended a run as not recognized, with no GET and no POST
C10_Witness ==
    \E run \in Live : run.outcome = "not_recognized" /\ run.gets = 0 /\ run.posts = 0


(***************************************************************************)
(* C11: no retry.                                                          *)
(***************************************************************************)
\* the step of a run that handles the response to its POST
C11_ResponseStep(r) ==
    LET run == runs[r]
        after == runs'[r]
        resp == run.l.response
        refused == \/ resp.kind \in {"error", "status", "notjson"}
                   \/ resp.kind = "object" /\ resp.correct \in {J_false, Absent, JNull}
    IN  (run.pc = "response" /\ refused) =>
            /\ after.pc = "finally"
            /\ after.posts = 1
            /\ after.chained = NoRequest
            /\ (resp.kind = "object" => after.outcome = "incorrect")

\* C11: a run navigates at most once, issues at most one GET and at most one
\* POST, and nothing is sent again once the run is on its way out; after a
\* response with correct = false, a non-2xx response or a body that is no
\* JSON the run ends with its one POST and no chained QuizRequest
C11_NoRetry ==
    [][\A r \in RunIds :
         (Started(r) /\ Len(runs') = Len(runs) /\ runs'[r] # runs[r]) =>
            /\ runs'[r].navs <= 1 /\ runs'[r].gets <= 1 /\ runs'[r].posts <= 1
            /\ runs'[r].navs >= runs[r].navs
            /\ runs'[r].gets >= runs[r].gets
            /\ runs'[r].posts >= runs[r].posts
            /\ C11_ResponseStep(r)]_vars

\* a run has ended on a response with correct = false, its one POST sent
C11_Witness ==
    \E run \in Live :
        /\ run.outcome = "incorrect"
        /\ run.posts = 1 /\ run.gets = 1 /\ run.navs = 1
        /\ run.chained = NoRequest


(***************************************************************************)
(* C12, C20: the inbound trigger.                                          *)
(***************************************************************************)
\* C12: a request to /quiz schedules a run if and only if its secret equals
\* SECRET: on a mismatch the response is the 403 and nothing is scheduled; on a
\* match solve_quiz is added once, with the request received, and the
\* acknowledgement is returned while that run has not started
C12_TriggerAuthorization ==
    [][received' # received =>
         /\ received' = received + 1
         /\ reply'.to \in Requests
         /\ runs' = runs /\ finished' = finished
         /\ IF reply'.to.secret = SECRET
            THEN reply'.status = 200 /\ pending' = Append(pending, reply'.to)
            ELSE reply'.status = 403 /\ pending' = pending]_vars

\* a request has been acknowledged, its run scheduled and not started
C12_Witness ==
    /\ reply.status = 200
    /\ pending # <<>>
    /\ pending[Len(pending)] = reply.to
    /\ runs = <<>>

\* C20: with SECRET not configured every request to /quiz, whatever its secret,
\* the empty string included, is answered with the 403, and no run is ever
\* scheduled, started or ended
C20_UnconfiguredFailsClosed ==
    [][SECRET = NoSecret =>
         /\ received' # received => reply'.status = 403
         /\ pending' = <<>> /\ runs' = <<>> /\ finished' = {}]_vars

\* with SECRET not configured, a request with the empty secret has been rejected
C20_Witness ==
    /\ SECRET = NoSecret
    /\ reply.status = 403
    /\ reply.to.secret = ""
    /\ pending = <<>>


(***************************************************************************)
(* C13: payload extraction.                                                *)
(***************************************************************************)
\* C13: the extraction step never ends the run: from the in-page lookup the
\* run goes to the parsing with the decoded text or on to the fallback, and
\* from the fallback to the parsing with the page content
C13_ExtractionNeverFails ==
    [][\A r \in RunIds :
         (Started(r) /\ Len(runs') = Len(runs) /\ runs'[r] # runs[r]) =>
            /\ runs[r].pc = "evaluate" =>
                  \/ runs'[r].pc = "content"
                  \/ runs'[r].pc = "parse" /\ runs'[r].l.decoded \in PageDocs
            /\ runs[r].pc = "content" =>
                  runs'[r].pc = "parse" /\ runs'[r].l.decoded \in PageDocs]_vars


(***************************************************************************)
(* C14: the order of the stages.                                           *)
(***************************************************************************)
\* the place of a position of solve_quiz in the order of its stages
C14_Rank(pc) ==
    CASE pc = "playwright" -> 0
      [] pc = "launch" -> 1
      [] pc = "goto" -> 2
      [] pc = "evaluate" -> 3
      [] pc = "content" -> 4
      [] pc = "parse" -> 5
      [] pc = "dispatch" -> 6
      [] pc = "download" -> 7
      [] pc = "open_pdf" -> 8
      [] pc = "table" -> 9
      [] pc = "sum" -> 10
      [] pc = "submit" -> 11
      [] pc = "posted" -> 12
      [] pc = "response" -> 13
      [] pc = "finally" -> 14

\* one step of a run: it goes to the next stage or leaves, its navigation,
\* GET, table lookup, Answer and POST each happen at their own stage, and
\* what it has done so far is a prefix of the order
C14_OrderStep(r) ==
    LET run == runs[r]
        after == runs'[r]
    IN  /\ \/ after.pc = "finally"
           \/ C14_Rank(after.pc) = C14_Rank(run.pc) + 1
           \/ run.pc = "evaluate" /\ after.pc = "parse"
        /\ after.navs # run.navs => run.pc = "goto"
        /\ after.found # run.found => run.pc = "parse"
        /\ after.gets # run.gets => run.pc = "download"
        /\ after.lookups # run.lookups => run.pc = "table"
        /\ after.answered # run.answered => run.pc = "sum"
        /\ after.posts # run.posts => run.pc = "submit"
        /\ after.found => after.navs = 1
        /\ after.gets > 0 => after.found
        /\ after.lookups > 0 => after.gets = 1
        /\ after.answered => after.lookups = 1
        /\ after.posts > 0 => after.answered

\* C14: in every run navigation, extraction, parsing, dispatch, download,
\* table sum and POST happen in this order, each only after the one before
\* succeeded: no GET in a run that found no submission URL, no POST before
\* the sum
C14_StageOrder ==
    [][\A r \in RunIds :
         (Started(r) /\ Len(runs') = Len(runs) /\ runs'[r] # runs[r]) => C14_OrderStep(r)]_vars

\* a run has gone through every stage up to its POST
C14_Witness ==
    \E run \in Live :
        /\ run.pc = "posted"
        /\ run.navs = 1 /\ run.found /\ run.gets = 1 /\ run.lookups = 1
        /\ run.answered /\ run.posts = 1


(***************************************************************************)
(* C15: run isolation.                                                     *)
(***************************************************************************)
\* C15: runs in progress share no mutable state: the PDF a run opens is the
\* one it downloaded itself, and a run that stores its download overwrites
\* the stored download of no other run in progress
C15_RunIsolation ==
    [][\A r \in RunIds :
         (Started(r) /\ Len(runs') = Len(runs) /\ runs'[r] # runs[r]) =>
            /\ (runs[r].pc = "open_pdf" /\ runs'[r].pc = "table") =>
                  runs'[r].l.pdf = runs[r].l.pdf
            /\ (runs[r].pc = "download" /\ runs'[r].stored) =>
                  \A o \in RunIds \ {r} : Started(o) => ~runs[o].stored]_vars


(***************************************************************************)
(* C16: suspension points.                                                 *)
(***************************************************************************)
\* the positions at which a run waits for the browser or for an HTTP peer:
\* launch(), new_page()/goto(), evaluate(), requests.get(), requests.post()
C16_Waiting == {"launch", "goto", "evaluate", "download", "posted"}

\* C16: a run that waits for the browser launch, the navigation, the in-page
\* evaluation, the PDF download or the submission POST does not occupy the
\* event loop: the other runs in progress can take their next step
C16_NonBlockingWaits ==
    \A r \in RunIds : \A o \in RunIds \ {r} :
        (Started(r) /\ Started(o) /\ runs[r].pc \in C16_Waiting) => loop # r


(***************************************************************************)
(* C17: the two variants.                                                  *)
(***************************************************************************)
\* what variant v sends for a table: <<the answer>>, or <<>> when it computes
\* no Answer or cannot serialise it
C17_Posts(v, table) ==
    LET res == sum_value_column(v, table)
    IN  IF res.raised = "" /\ json_serializable(res.answer)
        THEN <<res.answer.val>> ELSE <<>>

\* the variant that is not deployed
C17_Other == IF variant = "main" THEN "index" ELSE "main"

\* C17: on every table the deployed variant does what the other variant does:
\* where it ends the run without a POST the other sends nothing, and where
\* it POSTs an answer the other sends the same answer
C17_VariantsAgree ==
    [][\A r \in RunIds :
         (Started(r) /\ Len(runs') = Len(runs) /\ runs'[r] # runs[r]) =>
            LET sent == C17_Posts(C17_Other, runs[r].l.table)
            IN  /\ (runs[r].pc \in {"sum", "submit"} /\ runs'[r].pc = "finally") =>
                      sent = <<>>
                /\ (runs[r].pc = "submit" /\ runs'[r].pc = "posted") =>
                      sent = <<runs'[r].l.payload.answer.val>>]_vars


(***************************************************************************)
(* C18, C19: progress.                                                     *)
(***************************************************************************)
\* C18: chaining goes on: once a run has ended on a response with correct =
\* true and a follow-up url, a run of solve_quiz on that url is eventually
\* started
C18_ChainGoesOn ==
    (\E e \in finished : e.chained # NoRequest)
        ~> (\E e \in finished : \E run \in Live : e.chained # NoRequest /\ run.req = e.chained)

\* C19: every started run eventually returns: whenever runs are in progress,
\* a moment comes at which all of them have returned
C19_EveryRunReturns == (runs # <<>>) ~> (runs = <<>>)

====
